---- MODULE Spec2Model ----
(***************************************************************************)
(* A model of the analysis HTTP service of TradingAgents-CN                *)
(* (src/tradingagents/api/analysis_service.py): the credential pool        *)
(* selector, the LLM settings resolver, the readiness gate and the         *)
(* create_analysis handler with its off-loaded computation.                *)
(*                                                                         *)
(* Python values.  str values that the code only compares or passes on     *)
(* (provider and model names, labels, messages) are TLA+ strings.  str     *)
(* values that the code takes apart (the raw SILICONFLOW_API_KEY value     *)
(* and the credentials split from it) are sequences of one-character       *)
(* strings.  None is the string "None" among the former and the sequence   *)
(* <<"None">> among the latter; neither is a value a str can take here.    *)
(***************************************************************************)
EXTENDS Naturals, Integers, Sequences, FiniteSets, TLC

VARIABLES
    environ,          \* os.environ after load_dotenv (read by os.getenv)
    DEFAULT_CONFIG,   \* tradingagents.default_config.DEFAULT_CONFIG
    REPORT_EXPORTER,  \* the module's report exporter, None when its import failed
    call,             \* the last direct call of a helper: its input and result
    pc,               \* per request: idle, DISPATCHED, RETURNED or FAILED
    local,            \* per request: the locals of create_analysis
    engine,           \* per request: run_stock_analysis in the thread pool
    analysis_result,  \* per request: what run_stock_analysis returned or raised
    response,         \* per request: the HTTP response
    loop,             \* the request whose code holds the event loop, 0 when free
    uuid_counter,     \* how many request ids uuid4 has produced
    health            \* the last response of GET /health

vars == <<environ, DEFAULT_CONFIG, REPORT_EXPORTER, call, pc, local, engine,
          analysis_result, response, loop, uuid_counter, health>>

\* ------------------------------------------------------------------ bounds

\* Longest raw SILICONFLOW_API_KEY value enumerated character by character.
MaxRawLen == 4

\* Longest error list the validator returns.
MaxErrors == 2

\* Longest list of missing labels in a readiness snapshot.
MaxMissing == 2

\* Requests in flight together in the concurrent specification.
MaxRequests == 3

\* Threads of the pool run_in_threadpool hands the computation to.
MaxWorkers == 2

\* Longest credential masked, character by character.
MaxKeyLen == 9

\* Requests drawing on the pool of two credentials together.
MaxSharing == 2

\* Requests in the specification with fairness, one more than MaxWorkers.
MaxLive == 3

\* ----------------------------------------------------------- Python values

None == "None"
NoneSeq == <<"None">>

\* A key a dict does not hold.
Missing == "<missing>"

\* bool(v) of an Optional[str].
Truthy(v) == v # None /\ v # ""

\* a or b
Or(a, b) == IF Truthy(a) THEN a ELSE b

\* bool(s) of an Optional[str] held as a sequence of characters.
TruthySeq(s) == s # NoneSeq /\ s # <<>>

\* os.getenv(name, default) for the variables held as strings.
Getenv(name, default) == IF environ[name] = None THEN default ELSE environ[name]

\* d.get(key, default)
DictGet(d, key, default) == IF d[key] = Missing THEN default ELSE d[key]

\* ------------------------------------------------------------ str methods

Whitespace == {" ", "\t", "\n"}

\* s.replace(old, new) for one-character old and new.
StrReplace(s, old, new) == [i \in 1..Len(s) |-> IF s[i] = old THEN new ELSE s[i]]

\* s.split(sep) for a one-character sep: Len = number of sep in s, plus one.
RECURSIVE StrSplit(_, _)
StrSplit(s, sep) ==
    IF \A i \in 1..Len(s) : s[i] # sep
    THEN <<s>>
    ELSE LET k == CHOOSE i \in 1..Len(s) : s[i] = sep /\ \A j \in 1..(i - 1) : s[j] # sep
         IN  <<SubSeq(s, 1, k - 1)>> \o StrSplit(SubSeq(s, k + 1, Len(s)), sep)

\* s.strip()
RECURSIVE StrStrip(_)
StrStrip(s) ==
    IF s = <<>> THEN s
    ELSE IF s[1] \in Whitespace THEN StrStrip(Tail(s))
    ELSE IF s[Len(s)] \in Whitespace THEN StrStrip(SubSeq(s, 1, Len(s) - 1))
    ELSE s

\* [item.strip() for item in items if item.strip()]
RECURSIVE StripNonEmpty(_)
StripNonEmpty(items) ==
    IF items = <<>> THEN <<>>
    ELSE LET t == StrStrip(Head(items))
         IN  (IF t # <<>> THEN <<t>> ELSE <<>>) \o StripNonEmpty(Tail(items))

\* ------------------------------------------------- the credential selector

\* A bug the pool must not have: ";" left as part of a credential.
CandidatesCommaOnly(raw_value) == StripNonEmpty(StrSplit(raw_value, ","))

\* candidates of _select_random_siliconflow_api_key (lines 68-69).
Candidates(raw_value) ==
    StripNonEmpty(StrSplit(StrReplace(raw_value, ";", ","), ","))

\* A bug the selection must not have: the first candidate every time.
ChoiceOfFirst(seq) == {seq[1]}

\* random.choice(seq): the values it can return.
RandomChoice(seq) == {seq[i] : i \in 1..Len(seq)}

\* _select_random_siliconflow_api_key(): the values it can return under env.
_select_random_siliconflow_api_key(env) ==
    LET raw_value == IF env.SILICONFLOW_API_KEY = NoneSeq
                     THEN <<>> ELSE env.SILICONFLOW_API_KEY
    IN  IF ~TruthySeq(raw_value) THEN {NoneSeq}
        ELSE LET candidates == Candidates(raw_value)
             IN  IF candidates = <<>> THEN {NoneSeq}
                 ELSE RandomChoice(candidates)

\* ------------------------------------------------------ the config resolver

HTTP_400_BAD_REQUEST == 400
HTTP_422_UNPROCESSABLE_ENTITY == 422
HTTP_500_INTERNAL_SERVER_ERROR == 500
HTTP_503_SERVICE_UNAVAILABLE == 503

\* A bug the resolver must not have: the environment override first.
ModelOfEnvFirst(preferred_model, default_model) == Or(default_model, preferred_model)

\* model = preferred_model or default_model (line 174)
ModelOf(preferred_model, default_model) == Or(preferred_model, default_model)

\* A bug the resolver must not have: the settings returned with whatever
\* model was found, an empty one left for a later step to trip over.
ResolveNeverRaises(preferred_provider, preferred_model) ==
    [status_code |-> 0,
     provider |-> Or(preferred_provider,
                     Getenv("TRADINGAGENTS_API_LLMPROVIDER",
                            DictGet(DEFAULT_CONFIG, "llm_provider", "dashscope"))),
     model |-> Or(preferred_model,
                  Or(Or(Getenv("TRADINGAGENTS_API_LLMMODEL", None),
                        DictGet(DEFAULT_CONFIG, "llm_model", None)),
                     DictGet(DEFAULT_CONFIG, "deep_think_llm", None)))]

\* _resolve_llm_settings: status_code 0 is a normal return, 400 the raised
\* HTTPException.
_resolve_llm_settings(preferred_provider, preferred_model) ==
    LET provider == Or(preferred_provider,
                       Getenv("TRADINGAGENTS_API_LLMPROVIDER",
                              DictGet(DEFAULT_CONFIG, "llm_provider", "dashscope")))
        default_model ==
            Or(Or(Getenv("TRADINGAGENTS_API_LLMMODEL", None),
                  DictGet(DEFAULT_CONFIG, "llm_model", None)),
               DictGet(DEFAULT_CONFIG, "deep_think_llm", None))
        model == ModelOf(preferred_model, default_model)
    IN  IF ~Truthy(model)
        THEN [status_code |-> HTTP_400_BAD_REQUEST, provider |-> None, model |-> None]
        ELSE [status_code |-> 0, provider |-> provider, model |-> model]

\* ------------------------------------------------------- the readiness gate

\* A bug the message must not have: only the first label named.
JoinFirstOnly(parts, sep) == IF parts = <<>> THEN parts ELSE <<Head(parts)>>

\* ', '.join(parts) as the sequence of its fragments.
RECURSIVE Join(_, _)
Join(parts, sep) ==
    IF Len(parts) <= 1 THEN parts
    ELSE <<Head(parts), sep>> \o Join(Tail(parts), sep)

\* A bug the gate must not have: a snapshot with missing labels let through.
EnsureNeverRaises(status_snapshot) == [status_code |-> 0, detail |-> <<>>]

\* _ensure_environment_ready, given the snapshot collect_required_api_key_status
\* returned: status_code 0 is a normal return, 503 the raised HTTPException.
\* The text of the detail stands for "运行环境缺少必要配置: ".
_ensure_environment_ready(status_snapshot) ==
    IF status_snapshot.missing # <<>>
    THEN [status_code |-> HTTP_503_SERVICE_UNAVAILABLE,
          detail |-> <<"missing required configuration: ">>
                         \o Join(status_snapshot.missing, ", ")]
    ELSE [status_code |-> 0, detail |-> <<>>]

\* ------------------------------------------------------------------ inputs

DEFAULT_ANALYSTS == <<"market", "fundamentals">>

\* Sequences over S of length lo..hi.
SeqsOf(S, lo, hi) == UNION {[1..n -> S] : n \in lo..hi}

\* AnalysisRequest: the fields the handler distinguishes.  analysts and the two
\* llm overrides are Optional; pydantic has checked the others.
Requests ==
    [stock_symbol : {"600000"}, market_type : {"A"}, analysis_date : {"2025-01-02"},
     research_depth : {3},
     analysts : {NoneSeq, <<>>, <<"news">>},
     llm_provider : {None, "siliconflow", "deepseek"},
     llm_model : {None, "", "m_req"}]

\* What validate_analysis_params can return: (True, []) or (False, errors).
ErrorStrings == {"bad symbol", "bad date"}
ValidatorResults ==
    {[is_valid |-> TRUE, errors |-> <<>>]}
    \cup {[is_valid |-> FALSE, errors |-> e] : e \in SeqsOf(ErrorStrings, 1, MaxErrors)}

\* What collect_required_api_key_status can return: the list of missing labels.
Labels == {"FINNHUB_API_KEY", "DEEPSEEK_API_KEY"}
Snapshots == {[missing |-> m] : m \in SeqsOf(Labels, 0, MaxMissing)}

\* ----------------------------------------------- the computation's outcome

\* An entry of a dict: the key is absent, holds None, or holds a value.
KeyAbsent == [kind |-> "absent"]
KeyNone == [kind |-> "None"]
Key(x) == [kind |-> "value", value |-> x]

\* The entry holding an Optional[str].
OfOptional(v) == IF v = None THEN KeyNone ELSE Key(v)

\* d.get(key, default), on entries.
Get(d, key, default) == IF d[key].kind = "absent" THEN default ELSE d[key]

\* d.get(key), on entries.
Get1(d, key) == Get(d, key, KeyNone)

\* bool(entry) of an entry holding a bool or None.
TruthyFlag(e) == e.kind = "value" /\ e.value = TRUE

\* entry or {} of an entry holding a dict or None.
OrEmptyDict(e) == IF e.kind = "value" /\ e.value # "{}" THEN e ELSE Key("{}")

OutcomeFields ==
    {"stock_symbol", "analysis_date", "analysts", "research_depth", "llm_provider",
     "llm_model", "decision", "state", "metadata", "success", "error", "session_id",
     "is_demo", "demo_reason"}

\* The outcome of a run that succeeded: every field with the engine's own value.
SuccessOutcome ==
    [stock_symbol |-> Key("600000.SH"), analysis_date |-> Key("2025-01-03"),
     analysts |-> Key(<<"market">>), research_depth |-> Key(5),
     llm_provider |-> Key("engine-provider"), llm_model |-> Key("engine-model"),
     decision |-> Key("decision"), state |-> Key("state"),
     metadata |-> Key("metadata"), success |-> Key(TRUE), error |-> KeyNone,
     session_id |-> Key("session"), is_demo |-> Key(FALSE), demo_reason |-> KeyNone]

\* The outcome of a run that failed, with every field.
FailureOutcome ==
    [SuccessOutcome EXCEPT !.success = Key(FALSE), !.error = Key("rate limited"),
                           !.decision = Key("{}"), !.state = Key("{}")]

\* The outcome of a run that failed, with the success flag and the error only.
BareFailureOutcome ==
    [f \in OutcomeFields |->
        CASE f = "success" -> Key(FALSE)
          [] f = "error" -> Key("rate limited")
          [] OTHER -> KeyAbsent]

\* Other entries a field of an outcome may hold.
OtherEntries(f) ==
    {KeyAbsent, KeyNone}
    \cup (CASE f = "success" -> {Key(TRUE), Key(FALSE)}
            [] f = "is_demo" -> {Key(TRUE)}
            [] f = "error" -> {Key("rate limited")}
            [] OTHER -> {})

\* The outcomes run_stock_analysis may return: the three above, and each with
\* one field changed.
Outcomes ==
    UNION {{[b EXCEPT ![f] = e] : e \in OtherEntries(f)} :
        b \in {SuccessOutcome, FailureOutcome, BareFailureOutcome},
        f \in OutcomeFields}

\* The exceptions run_stock_analysis may raise: str(exc), or the detail of an
\* HTTPException, is a sequence of pieces of text.
EngineExceptions ==
    {[type |-> "HTTPException", status_code |-> c, text |-> <<"engine detail">>] :
        c \in {404, 503}}
    \cup {[type |-> "Exception", status_code |-> 0, text |-> <<"boom">>]}

\* The exceptions run_stock_analysis may raise that quote the
\* override_siliconflow_api_key it was called with, one character a piece.
ExceptionsQuoting(key) ==
    IF ~TruthySeq(key) THEN {}
    ELSE {[type |-> "HTTPException", status_code |-> 503,
           text |-> <<"rejected key ">> \o key],
          [type |-> "Exception", status_code |-> 0,
           text |-> <<"invalid api key ">> \o key]}

\* ------------------------------------------------------------ the handler

\* A local not bound yet, or a response without a body.
Unbound == [unbound |-> TRUE]

InitLocal ==
    [request |-> Unbound, analysts |-> NoneSeq, validation |-> Unbound,
     llm_settings |-> Unbound, override_siliconflow_api_key |-> NoneSeq,
     status_snapshot |-> Unbound, request_id |-> 0, render |-> "skipped",
     ready_call |-> Unbound, engine_call |-> Unbound, trace |-> <<>>]

\* The requests being handled.
Slots == DOMAIN pc

\* request.analysts or DEFAULT_ANALYSTS (line 199)
AnalystsOf(request) ==
    IF TruthySeq(request.analysts) THEN request.analysts ELSE DEFAULT_ANALYSTS

\* A bug the 422 must not have: only the first error surfaced.
FirstErrorOnly(errors) == <<errors[1]>>

\* detail=errors of the 422 (line 212)
ValidationDetail(errors) == errors

\* A bug the dispatch must not have: the computation called on the event loop,
\* which it then holds until the computation ends.
RunOnEventLoop(r) == r

\* await run_in_threadpool(...): the holder of the event loop while the
\* computation runs (line 244): nobody, the coroutine is suspended.
run_in_threadpool(r) == 0

\* A bug the readiness check must not have: called without the credential
\* selected, so that the environment's own value is what it checks.
ReadinessArgsWithoutOverride(llm_settings, override_siliconflow_api_key) ==
    [llm_provider |-> llm_settings.provider, override_siliconflow_api_key |-> NoneSeq]

\* The arguments of _ensure_environment_ready (lines 226-228), which it hands
\* to collect_required_api_key_status (lines 147-149).
ReadinessArgs(llm_settings, override_siliconflow_api_key) ==
    [llm_provider |-> llm_settings.provider,
     override_siliconflow_api_key |-> override_siliconflow_api_key]

\* The arguments of run_stock_analysis (lines 245-253).
EngineArgs(request, analysts, llm_settings, override_siliconflow_api_key) ==
    [stock_symbol |-> request.stock_symbol, analysis_date |-> request.analysis_date,
     analysts |-> analysts, research_depth |-> request.research_depth,
     llm_provider |-> llm_settings.provider, llm_model |-> llm_settings.model,
     market_type |-> request.market_type,
     override_siliconflow_api_key |-> override_siliconflow_api_key]

\* raise HTTPException(status_code, detail) out of the handler of request r,
\* whose locals are lcl.
Raise(r, lcl, status_code, detail) ==
    /\ pc' = [pc EXCEPT ![r] = "FAILED"]
    /\ local' = [local EXCEPT ![r] = lcl]
    /\ response' = [response EXCEPT ![r] =
           [status_code |-> status_code, detail |-> detail, request_id |-> 0,
            analysis |-> Unbound]]

\* create_analysis from its entry to the await of line 244, or to the
\* HTTPException a gate raises (lines 199-254).
create_analysis(r, Reqs, Vals, Snaps) ==
    /\ pc[r] = "idle"
    /\ loop = 0
    /\ \E request \in Reqs, validation \in Vals :
         LET l1 == [InitLocal EXCEPT !.request = request,
                                     !.analysts = AnalystsOf(request),
                                     !.validation = validation,
                                     !.trace = <<"validate">>]
             llm_settings == _resolve_llm_settings(request.llm_provider, request.llm_model)
             l2 == [l1 EXCEPT !.llm_settings = llm_settings,
                              !.trace = l1.trace \o <<"resolve">>]
             pooled == llm_settings.provider = "siliconflow"
         IN  IF ~validation.is_valid
             THEN /\ Raise(r, l1, HTTP_422_UNPROCESSABLE_ENTITY,
                           ValidationDetail(validation.errors))
                  /\ UNCHANGED <<engine, loop, uuid_counter>>
             ELSE IF llm_settings.status_code # 0
             THEN /\ Raise(r, l2, llm_settings.status_code, <<"cannot determine the model">>)
                  /\ UNCHANGED <<engine, loop, uuid_counter>>
             ELSE \E key \in (IF pooled THEN _select_random_siliconflow_api_key(environ)
                                        ELSE {NoneSeq}) :
                    LET l3 == [l2 EXCEPT !.override_siliconflow_api_key = key,
                                         !.trace = l2.trace \o
                                            (IF pooled THEN <<"select">> ELSE <<>>)]
                    IN  IF pooled /\ ~TruthySeq(key)
                        THEN /\ Raise(r, l3, HTTP_503_SERVICE_UNAVAILABLE,
                                      <<"SiliconFlow has no valid API key">>)
                             /\ UNCHANGED <<engine, loop, uuid_counter>>
                        ELSE \E status_snapshot \in Snaps :
                               LET ready == _ensure_environment_ready(status_snapshot)
                                   l4 == [l3 EXCEPT !.status_snapshot = status_snapshot,
                                                    !.ready_call =
                                                        ReadinessArgs(llm_settings, key),
                                                    !.trace = l3.trace \o <<"ready">>]
                                   l5 == [l4 EXCEPT !.request_id = uuid_counter + 1,
                                                    !.engine_call =
                                                        EngineArgs(request, l1.analysts,
                                                                   llm_settings, key),
                                                    !.trace = l4.trace \o
                                                        <<"request_id", "dispatch">>]
                               IN  IF ready.status_code # 0
                                   THEN /\ Raise(r, l4, ready.status_code, ready.detail)
                                        /\ UNCHANGED <<engine, loop, uuid_counter>>
                                   ELSE /\ pc' = [pc EXCEPT ![r] = "DISPATCHED"]
                                        /\ local' = [local EXCEPT ![r] = l5]
                                        /\ uuid_counter' = uuid_counter + 1
                                        /\ engine' = [engine EXCEPT ![r] = "queued"]
                                        /\ loop' = run_in_threadpool(r)
                                        /\ UNCHANGED response
    /\ UNCHANGED <<environ, DEFAULT_CONFIG, REPORT_EXPORTER, call, analysis_result, health>>

\* A bug the dispatch must not have: the thread of a computation that ended
\* is never given back to the pool.
ThreadStartLeaking(r) ==
    /\ engine[r] = "queued"
    /\ Cardinality({q \in Slots : engine[q] \in {"running", "returned", "raised"}})
           < MaxWorkers
    /\ \A q \in Slots : engine[q] = "queued" => local[r].request_id <= local[q].request_id
    /\ engine' = [engine EXCEPT ![r] = "running"]
    /\ UNCHANGED <<environ, DEFAULT_CONFIG, REPORT_EXPORTER, call, pc, local,
                   analysis_result, response, loop, uuid_counter, health>>

\* A bug the dispatch must not have: a computation that raised is started
\* again.
ThreadStartsAgain(r) ==
    /\ engine[r] \in {"queued", "raised"}
    /\ Cardinality({q \in Slots : engine[q] = "running"}) < MaxWorkers
    /\ engine' = [engine EXCEPT ![r] = "running"]
    /\ UNCHANGED <<environ, DEFAULT_CONFIG, REPORT_EXPORTER, call, pc, local,
                   analysis_result, response, loop, uuid_counter, health>>

\* The computation of request r starts on a thread of the pool when one is
\* free, the computations that wait starting in the order of their dispatch
\* (run_in_threadpool, line 244).
ThreadStart(r) ==
    /\ engine[r] = "queued"
    /\ Cardinality({q \in Slots : engine[q] = "running"}) < MaxWorkers
    /\ \A q \in Slots : engine[q] = "queued" => local[r].request_id <= local[q].request_id
    /\ engine' = [engine EXCEPT ![r] = "running"]
    /\ UNCHANGED <<environ, DEFAULT_CONFIG, REPORT_EXPORTER, call, pc, local,
                   analysis_result, response, loop, uuid_counter, health>>

\* run_stock_analysis returns an outcome (lines 244-254).
EngineReturns(r, Outs) ==
    /\ engine[r] = "running"
    /\ \E outcome \in Outs :
         analysis_result' = [analysis_result EXCEPT ![r] = outcome]
    /\ engine' = [engine EXCEPT ![r] = "returned"]
    /\ UNCHANGED <<environ, DEFAULT_CONFIG, REPORT_EXPORTER, call, pc, local,
                   response, loop, uuid_counter, health>>

\* run_stock_analysis raises (lines 244-254).
EngineRaises(r, Excs) ==
    /\ engine[r] = "running"
    /\ \E exc \in Excs :
         analysis_result' = [analysis_result EXCEPT ![r] = exc]
    /\ engine' = [engine EXCEPT ![r] = "raised"]
    /\ UNCHANGED <<environ, DEFAULT_CONFIG, REPORT_EXPORTER, call, pc, local,
                   response, loop, uuid_counter, health>>

\* The fields format_analysis_results hands to the handler.
FormattedFields ==
    {"stock_symbol", "analysis_date", "analysts", "research_depth", "llm_provider",
     "llm_model", "decision", "state", "metadata", "success", "error"}

\* format_analysis_results(analysis_result): the normalized mapping, which
\* has a field exactly when the outcome has it.
format_analysis_results(outcome) == [f \in FormattedFields |-> outcome[f]]

\* A bug the except clauses must not have: no pass-through of HTTPException.
ExceptAllAs500(exc) ==
    [status_code |-> HTTP_500_INTERNAL_SERVER_ERROR,
     detail |-> <<"analysis failed: ">> \o exc.text]

\* The two except clauses of the dispatch (lines 255-263): the HTTPException
\* the handler ends with.  The text of the detail stands for "分析执行失败: ".
ExceptClauses(exc) ==
    IF exc.type = "HTTPException"
    THEN [status_code |-> exc.status_code, detail |-> exc.text]
    ELSE [status_code |-> HTTP_500_INTERNAL_SERVER_ERROR,
          detail |-> <<"analysis failed: ">> \o exc.text]

\* A bug the assembly must not have: the model the request asked for echoed
\* in place of the model that was resolved.
PayloadModelOfRequest(lcl, outcome, formatted_result, markdown_report) ==
    [stock_symbol |-> Get(formatted_result, "stock_symbol", Key(lcl.request.stock_symbol)),
     market_type |-> Key(lcl.request.market_type),
     analysis_date |-> Get(formatted_result, "analysis_date", Key(lcl.request.analysis_date)),
     analysts |-> Get(formatted_result, "analysts", Key(lcl.analysts)),
     research_depth |-> Get(formatted_result, "research_depth",
                            Key(lcl.request.research_depth)),
     llm_provider |-> Get(formatted_result, "llm_provider",
                          OfOptional(lcl.llm_settings.provider)),
     llm_model |-> Get(formatted_result, "llm_model", Key(lcl.request.llm_model)),
     decision |-> OrEmptyDict(Get1(formatted_result, "decision")),
     state |-> OrEmptyDict(Get1(formatted_result, "state")),
     metadata |-> Get1(formatted_result, "metadata"),
     success |-> Get(formatted_result, "success", Key(FALSE)),
     error |-> Get1(formatted_result, "error"),
     session_id |-> Get1(outcome, "session_id"),
     is_demo |-> Get(outcome, "is_demo", Key(FALSE)),
     demo_reason |-> Get1(outcome, "demo_reason"),
     markdown_report |-> markdown_report]

\* AnalysisPayload(...) of lines 282-299, before pydantic validates it.
PayloadOf(lcl, outcome, formatted_result, markdown_report) ==
    [stock_symbol |-> Get(formatted_result, "stock_symbol", Key(lcl.request.stock_symbol)),
     market_type |-> Key(lcl.request.market_type),
     analysis_date |-> Get(formatted_result, "analysis_date", Key(lcl.request.analysis_date)),
     analysts |-> Get(formatted_result, "analysts", Key(lcl.analysts)),
     research_depth |-> Get(formatted_result, "research_depth",
                            Key(lcl.request.research_depth)),
     llm_provider |-> Get(formatted_result, "llm_provider",
                          OfOptional(lcl.llm_settings.provider)),
     llm_model |-> Get(formatted_result, "llm_model", Key(lcl.llm_settings.model)),
     decision |-> OrEmptyDict(Get1(formatted_result, "decision")),
     state |-> OrEmptyDict(Get1(formatted_result, "state")),
     metadata |-> Get1(formatted_result, "metadata"),
     success |-> Get(formatted_result, "success", Key(FALSE)),
     error |-> Get1(formatted_result, "error"),
     session_id |-> Get1(outcome, "session_id"),
     is_demo |-> Get(outcome, "is_demo", Key(FALSE)),
     demo_reason |-> Get1(outcome, "demo_reason"),
     markdown_report |-> markdown_report]

\* The fields of AnalysisPayload that are not Optional (lines 110-125).
RequiredFields ==
    {"stock_symbol", "market_type", "analysis_date", "analysts", "research_depth",
     "llm_provider", "llm_model", "decision", "state", "success", "is_demo"}

\* pydantic accepts the payload: no field that is not Optional holds None.
PayloadValid(payload) == \A f \in RequiredFields : payload[f].kind = "value"

\* create_analysis from the return of the await to its end (lines 255-305).
Resume(r) ==
    /\ pc[r] = "DISPATCHED"
    /\ engine[r] \in {"returned", "raised"}
    /\ loop \in {0, r}
    /\ loop' = 0
    /\ IF engine[r] = "raised"
       THEN LET http == ExceptClauses(analysis_result[r])
            IN  /\ pc' = [pc EXCEPT ![r] = "FAILED"]
                /\ local' = [local EXCEPT ![r].trace = @ \o <<"except">>]
                /\ response' = [response EXCEPT ![r] =
                       [status_code |-> http.status_code, detail |-> http.detail,
                        request_id |-> 0, analysis |-> Unbound]]
       ELSE LET outcome == analysis_result[r]
                formatted_result == format_analysis_results(outcome)
                attempt == TruthyFlag(Get1(formatted_result, "success"))
                               /\ REPORT_EXPORTER # None
            IN  \E rendered \in (IF attempt THEN {"ok", "raised"} ELSE {"skipped"}) :
                  LET markdown_report == IF rendered = "ok" THEN Key("markdown")
                                                            ELSE KeyNone
                      payload == PayloadOf(local[r], outcome, formatted_result,
                                           markdown_report)
                      lcl == [local[r] EXCEPT !.render = rendered,
                                              !.trace = @ \o <<"format", "assemble">>]
                  IN  /\ local' = [local EXCEPT ![r] = lcl]
                      /\ IF PayloadValid(payload)
                         THEN /\ pc' = [pc EXCEPT ![r] = "RETURNED"]
                              /\ response' = [response EXCEPT ![r] =
                                     [status_code |-> 200, detail |-> <<>>,
                                      request_id |-> lcl.request_id,
                                      analysis |-> payload]]
                         ELSE \* pydantic's ValidationError leaves the handler
                              /\ pc' = [pc EXCEPT ![r] = "FAILED"]
                              /\ response' = [response EXCEPT ![r] =
                                     [status_code |-> HTTP_500_INTERNAL_SERVER_ERROR,
                                      detail |-> <<"Internal Server Error">>,
                                      request_id |-> 0, analysis |-> Unbound]]
    /\ UNCHANGED <<environ, DEFAULT_CONFIG, REPORT_EXPORTER, call, engine,
                   analysis_result, uuid_counter, health>>

\* GET /health (lines 185-188)
health_check ==
    /\ loop = 0
    /\ health' = [status |-> "ok"]
    /\ UNCHANGED <<environ, DEFAULT_CONFIG, REPORT_EXPORTER, call, pc, local, engine,
                   analysis_result, response, loop, uuid_counter>>

\* ---------------------------------------------------------- specifications

\* The state of the handlers of the requests S before any is received.
InitRequests(S) ==
    /\ pc = [r \in S |-> "idle"]
    /\ local = [r \in S |-> InitLocal]
    /\ engine = [r \in S |-> "none"]
    /\ analysis_result = [r \in S |-> Unbound]
    /\ response = [r \in S |-> [status_code |-> 0, detail |-> <<>>, request_id |-> 0,
                                analysis |-> Unbound]]
    /\ loop = 0
    /\ uuid_counter = 0
    /\ health = Unbound
    /\ call = [op |-> "none"]

\* The environments and default configurations one request is checked under.
Environs ==
    [TRADINGAGENTS_API_LLMPROVIDER : {None, "", "siliconflow"},
     TRADINGAGENTS_API_LLMMODEL : {None, "m_env"},
     SILICONFLOW_API_KEY : {NoneSeq, <<" ", ";">>, <<"a">>, <<"a", ",", "b">>}]

Configs ==
    {[llm_provider |-> "openai", llm_model |-> Missing, deep_think_llm |-> "o4-mini"],
     [llm_provider |-> Missing, llm_model |-> Missing, deep_think_llm |-> Missing]}

Init ==
    /\ environ \in Environs
    /\ DEFAULT_CONFIG \in Configs
    /\ REPORT_EXPORTER \in {None, "ReportExporter"}
    /\ InitRequests({1})

Next ==
    \/ \E r \in Slots : create_analysis(r, Requests, ValidatorResults, Snapshots)
    \/ \E r \in Slots : ThreadStart(r)
    \/ \E r \in Slots : EngineReturns(r, Outcomes)
    \/ \E r \in Slots :
         EngineRaises(r, EngineExceptions
                         \cup ExceptionsQuoting(local[r].override_siliconflow_api_key))
    \/ \E r \in Slots : Resume(r)
    \/ health_check

\* One request at a time, under every input.
Spec == Init /\ [][Next]_vars

\* The inputs of the concurrent specification: one request of the pooled
\* provider, a pool of one credential, and one input for each way a request
\* can end.
ConcRequests ==
    {[stock_symbol |-> "600000", market_type |-> "A", analysis_date |-> "2025-01-02",
      research_depth |-> 3, analysts |-> NoneSeq, llm_provider |-> "siliconflow",
      llm_model |-> "m_req"]}
ConcValidatorResults ==
    {[is_valid |-> TRUE, errors |-> <<>>], [is_valid |-> FALSE, errors |-> <<"bad symbol">>]}
ConcSnapshots == {[missing |-> <<>>], [missing |-> <<"FINNHUB_API_KEY">>]}
ConcOutcomes == {SuccessOutcome, BareFailureOutcome}
ConcExceptions == {[type |-> "Exception", status_code |-> 0, text |-> <<"boom">>]}

InitConc ==
    /\ environ = [TRADINGAGENTS_API_LLMPROVIDER |-> None,
                  TRADINGAGENTS_API_LLMMODEL |-> None,
                  SILICONFLOW_API_KEY |-> <<"a">>]
    /\ DEFAULT_CONFIG = [llm_provider |-> "openai", llm_model |-> Missing,
                         deep_think_llm |-> "o4-mini"]
    /\ REPORT_EXPORTER = "ReportExporter"
    /\ InitRequests(1..MaxRequests)

NextConc ==
    \/ \E r \in Slots :
         create_analysis(r, ConcRequests, ConcValidatorResults, ConcSnapshots)
    \/ \E r \in Slots : ThreadStart(r)
    \/ \E r \in Slots : EngineReturns(r, ConcOutcomes)
    \/ \E r \in Slots : EngineRaises(r, ConcExceptions)
    \/ \E r \in Slots : Resume(r)
    \/ health_check

\* MaxRequests requests in flight together.
SpecConc == InitConc /\ [][NextConc]_vars

\* The inputs of the specification of the shared pool: requests of the pooled
\* provider that pass validation, and a pool of two credentials.
SharedValidatorResults == {[is_valid |-> TRUE, errors |-> <<>>]}
SharedOutcomes == {BareFailureOutcome}

InitShared ==
    /\ environ = [TRADINGAGENTS_API_LLMPROVIDER |-> None,
                  TRADINGAGENTS_API_LLMMODEL |-> None,
                  SILICONFLOW_API_KEY |-> <<"a", ";", "b">>]
    /\ DEFAULT_CONFIG = [llm_provider |-> "openai", llm_model |-> Missing,
                         deep_think_llm |-> "o4-mini"]
    /\ REPORT_EXPORTER = "ReportExporter"
    /\ InitRequests(1..MaxSharing)

NextShared ==
    \/ \E r \in Slots :
         create_analysis(r, ConcRequests, SharedValidatorResults, ConcSnapshots)
    \/ \E r \in Slots : ThreadStart(r)
    \/ \E r \in Slots : EngineReturns(r, SharedOutcomes)
    \/ \E r \in Slots : EngineRaises(r, ConcExceptions)
    \/ \E r \in Slots : Resume(r)

\* MaxSharing requests drawing on one pool of two credentials.
SpecShared == InitShared /\ [][NextShared]_vars

\* The inputs of the specification with fairness.
LiveSnapshots == {[missing |-> <<>>]}
LiveOutcomes == {BareFailureOutcome}

InitLive ==
    /\ environ = [TRADINGAGENTS_API_LLMPROVIDER |-> None,
                  TRADINGAGENTS_API_LLMMODEL |-> None,
                  SILICONFLOW_API_KEY |-> <<"a">>]
    /\ DEFAULT_CONFIG = [llm_provider |-> "openai", llm_model |-> Missing,
                         deep_think_llm |-> "o4-mini"]
    /\ REPORT_EXPORTER = "ReportExporter"
    /\ InitRequests(1..MaxLive)

NextLive ==
    \/ \E r \in Slots :
         create_analysis(r, ConcRequests, ConcValidatorResults, LiveSnapshots)
    \/ \E r \in Slots : ThreadStart(r)
    \/ \E r \in Slots : EngineReturns(r, LiveOutcomes)
    \/ \E r \in Slots : EngineRaises(r, ConcExceptions)
    \/ \E r \in Slots : Resume(r)

\* The pool hands a free thread to the computation that waits first, every
\* computation that runs returns or raises, and the event loop resumes every
\* coroutine whose await is over.  Requests need not arrive.
LiveFairness ==
    \A r \in 1..MaxLive :
        /\ WF_vars(ThreadStart(r))
        /\ WF_vars(EngineReturns(r, LiveOutcomes) \/ EngineRaises(r, ConcExceptions))
        /\ WF_vars(Resume(r))

\* MaxLive requests on MaxWorkers threads, under fair scheduling.
SpecLive == InitLive /\ [][NextLive]_vars /\ LiveFairness

\* ------------------------------------------- the helpers, called directly

\* _select_random_siliconflow_api_key() is called once.
SelectCall ==
    /\ call.op = "none"
    /\ \E chosen \in _select_random_siliconflow_api_key(environ) :
         call' = [op |-> "select", result |-> chosen]
    /\ UNCHANGED <<environ, DEFAULT_CONFIG, REPORT_EXPORTER, pc, local, engine,
                   analysis_result, response, loop, uuid_counter, health>>

\* The characters of the raw values enumerated, and the value of the
\* specification's example, "k1,k2;k3".
Alphabet == {"a", "b", ",", ";", " "}
ExampleRaw == <<"k", "1", ",", "k", "2", ";", "k", "3">>
RawValues == {NoneSeq, ExampleRaw} \cup SeqsOf(Alphabet, 0, MaxRawLen)

InitPool ==
    /\ environ \in [TRADINGAGENTS_API_LLMPROVIDER : {None},
                    TRADINGAGENTS_API_LLMMODEL : {None},
                    SILICONFLOW_API_KEY : RawValues]
    /\ DEFAULT_CONFIG = [llm_provider |-> Missing, llm_model |-> Missing,
                         deep_think_llm |-> Missing]
    /\ REPORT_EXPORTER = None
    /\ InitRequests({})

NextPool == SelectCall

\* The credential selector alone, under every raw value up to MaxRawLen.
SpecPool == InitPool /\ [][NextPool]_vars

\* _resolve_llm_settings(preferred_provider, preferred_model) is called once.
ResolveCall ==
    /\ call.op = "none"
    /\ \E preferred_provider \in {None, "", "p_req"},
          preferred_model \in {None, "", "m_req"} :
         call' = [op |-> "resolve", preferred_provider |-> preferred_provider,
                  preferred_model |-> preferred_model,
                  result |-> _resolve_llm_settings(preferred_provider, preferred_model)]
    /\ UNCHANGED <<environ, DEFAULT_CONFIG, REPORT_EXPORTER, pc, local, engine,
                   analysis_result, response, loop, uuid_counter, health>>

InitResolve ==
    /\ environ \in [TRADINGAGENTS_API_LLMPROVIDER : {None, "", "p_env"},
                    TRADINGAGENTS_API_LLMMODEL : {None, "", "m_env"},
                    SILICONFLOW_API_KEY : {NoneSeq}]
    /\ DEFAULT_CONFIG \in [llm_provider : {Missing, None, "", "p_cfg"},
                           llm_model : {Missing, None, "", "m_cfg"},
                           deep_think_llm : {Missing, None, "", "m_deep"}]
    /\ REPORT_EXPORTER = None
    /\ InitRequests({})

NextResolve == ResolveCall

\* The config resolver alone, under every request override, environment
\* override and default configuration.
SpecResolve == InitResolve /\ [][NextResolve]_vars

\* "*" * n
Asterisks(n) == [i \in 1..n |-> "*"]

\* A bug the mask must not have: the threshold at the 4 characters revealed
\* at each end, so that a credential of 5 to 8 characters is shown whole.
MaskThresholdFour(api_key) ==
    IF ~TruthySeq(api_key) THEN <<>>
    ELSE IF Len(api_key) <= 4 THEN Asterisks(Len(api_key))
    ELSE SubSeq(api_key, 1, 4) \o <<"*", "*", "*">>
             \o SubSeq(api_key, Len(api_key) - 3, Len(api_key))

\* _mask_api_key(api_key) (lines 53-59)
_mask_api_key(api_key) ==
    IF ~TruthySeq(api_key) THEN <<>>
    ELSE IF Len(api_key) <= 8 THEN Asterisks(Len(api_key))
    ELSE SubSeq(api_key, 1, 4) \o <<"*", "*", "*">>
             \o SubSeq(api_key, Len(api_key) - 3, Len(api_key))

\* The credentials masked: every one over two characters up to MaxKeyLen,
\* and one of 12 characters that are all different.
KeyAlphabet == {"a", "b"}
ExampleKey == <<"s", "k", "-", "1", "2", "3", "4", "5", "6", "7", "8", "9">>
Credentials == {ExampleKey} \cup SeqsOf(KeyAlphabet, 0, MaxKeyLen)

\* _mask_api_key(chosen) is called once (line 73).
MaskCall ==
    /\ call.op = "none"
    /\ \E chosen \in Credentials :
         call' = [op |-> "mask", api_key |-> chosen, result |-> _mask_api_key(chosen)]
    /\ UNCHANGED <<environ, DEFAULT_CONFIG, REPORT_EXPORTER, pc, local, engine,
                   analysis_result, response, loop, uuid_counter, health>>

InitMask ==
    /\ environ = [TRADINGAGENTS_API_LLMPROVIDER |-> None,
                  TRADINGAGENTS_API_LLMMODEL |-> None,
                  SILICONFLOW_API_KEY |-> NoneSeq]
    /\ DEFAULT_CONFIG = [llm_provider |-> Missing, llm_model |-> Missing,
                         deep_think_llm |-> Missing]
    /\ REPORT_EXPORTER = None
    /\ InitRequests({})

NextMask == MaskCall

\* The mask alone, under every credential up to MaxKeyLen.
SpecMask == InitMask /\ [][NextMask]_vars

\* ------------------------------------------------------------------ claims

\* The elements of a sequence.
Range(q) == {q[i] : i \in 1..Len(q)}

Min(S) == CHOOSE x \in S : \A y \in S : x <= y
Max(S) == CHOOSE x \in S : \A y \in S : x >= y

\* s without its leading and trailing whitespace, by the places of its other
\* characters.
Trimmed(s) ==
    LET keep == {i \in 1..Len(s) : s[i] \notin Whitespace}
    IN  IF keep = {} THEN <<>> ELSE SubSeq(s, Min(keep), Max(keep))

\* The tokens of s in one pass: a token ends at each "," and each ";" and at
\* the end, is trimmed, and is dropped when nothing is left of it.
RECURSIVE TokensFrom(_, _)
TokensFrom(s, token) ==
    LET emit == IF Trimmed(token) = <<>> THEN <<>> ELSE <<Trimmed(token)>>
    IN  IF s = <<>> THEN emit
        ELSE IF Head(s) \in {",", ";"} THEN emit \o TokensFrom(Tail(s), <<>>)
        ELSE TokensFrom(Tail(s), Append(token, Head(s)))

\* The credential pool of the environment.
Pool ==
    IF environ.SILICONFLOW_API_KEY = NoneSeq THEN <<>>
    ELSE TokensFrom(environ.SILICONFLOW_API_KEY, <<>>)

\* C10: the candidates the selector computes are the tokens of the raw value
\* split on "," and ";", trimmed, the empty ones dropped ("k1,k2;k3" gives
\* k1, k2, k3); the selector returns None exactly when that pool is empty,
\* its only element when it has one, and otherwise an element of it; the
\* values it can return are exactly the elements of the pool.
C10_PoolAndSelection ==
    LET pool == Pool
        possible == _select_random_siliconflow_api_key(environ)
    IN  /\ environ.SILICONFLOW_API_KEY # NoneSeq =>
               Candidates(environ.SILICONFLOW_API_KEY) = pool
        /\ environ.SILICONFLOW_API_KEY = ExampleRaw =>
               pool = <<(<<"k", "1">>), (<<"k", "2">>), (<<"k", "3">>)>>
        /\ possible = IF pool = <<>> THEN {NoneSeq} ELSE Range(pool)
        /\ call.op = "select" =>
               /\ call.result = NoneSeq <=> pool = <<>>
               /\ Len(pool) = 1 => call.result = pool[1]
               /\ Len(pool) > 1 => call.result \in Range(pool)

\* C10's case: the second credential of a pool of two, split at a ";", is
\* the one selected.
C10_Witness ==
    /\ call.op = "select"
    /\ environ.SILICONFLOW_API_KEY = <<"a", " ", ";", "b">>
    /\ call.result = <<"b">>

\* C6, as claimed: the resolver returns a provider and a model that are both
\* non-empty, or the request fails with 400 before the readiness check and
\* the dispatch; no request passes the resolver with an empty provider or an
\* empty model.
C6_NeverPartiallyResolved ==
    \A r \in Slots :
        local[r].llm_settings # Unbound =>
            \/ /\ local[r].llm_settings.status_code = HTTP_400_BAD_REQUEST
               /\ pc[r] = "FAILED"
               /\ response[r].status_code = HTTP_400_BAD_REQUEST
               /\ local[r].status_snapshot = Unbound
               /\ engine[r] = "none"
            \/ /\ local[r].llm_settings.status_code = 0
               /\ Truthy(local[r].llm_settings.provider)
               /\ Truthy(local[r].llm_settings.model)

\* The first non-empty value among the sources of the default model, in the
\* order environment override, configured llm_model, deep_think_llm; None
\* when every one is unset, None or empty.
ModelSources ==
    <<environ.TRADINGAGENTS_API_LLMMODEL, DEFAULT_CONFIG.llm_model,
      DEFAULT_CONFIG.deep_think_llm>>
Defined(v) == v \notin {None, Missing}
NonEmpty(v) == v \notin {None, Missing, ""}
FirstDefinedSource ==
    LET at == {i \in 1..3 : Defined(ModelSources[i])}
    IN  IF at = {} THEN None ELSE ModelSources[Min(at)]
FirstNonEmptySource ==
    LET at == {i \in 1..3 : NonEmpty(ModelSources[i])}
    IN  IF at = {} THEN None ELSE ModelSources[Min(at)]

\* C7, as claimed: a supplied llm_model is the resolved model verbatim; when
\* none is supplied the model is that of the first defined source.
C7_SuppliedModelVerbatim ==
    call.op = "resolve" =>
        IF call.preferred_model # None
        THEN call.result.status_code = 0 /\ call.result.model = call.preferred_model
        ELSE FirstDefinedSource # None =>
                 call.result.status_code = 0 /\ call.result.model = FirstDefinedSource

\* C7, amended: a supplied non-empty llm_model is the resolved model verbatim;
\* when llm_model is absent or empty the model is that of the first non-empty
\* source, and the call fails with 400 when there is none.
C7_NonEmptyModelVerbatim ==
    call.op = "resolve" =>
        IF NonEmpty(call.preferred_model)
        THEN call.result.status_code = 0 /\ call.result.model = call.preferred_model
        ELSE IF FirstNonEmptySource # None
        THEN call.result.status_code = 0 /\ call.result.model = FirstNonEmptySource
        ELSE call.result.status_code = HTTP_400_BAD_REQUEST

\* C7's case: the request's model wins over an environment override and a
\* configured default.
C7_Witness ==
    /\ call.op = "resolve"
    /\ call.preferred_model = "m_req"
    /\ environ.TRADINGAGENTS_API_LLMMODEL = "m_env"
    /\ DEFAULT_CONFIG.llm_model = "m_cfg"
    /\ call.result.model = "m_req"

\* The handler of request r is past the await or has raised.
Ended(r) == pc[r] \in {"RETURNED", "FAILED"}

\* The gates a request whose computation was invoked has passed, in order.
GatesPassed(lcl) ==
    <<"validate", "resolve">>
    \o (IF lcl.llm_settings.provider = "siliconflow" THEN <<"select">> ELSE <<>>)
    \o <<"ready">>

\* A gate has failed for the request whose locals are lcl.
GateFailed(lcl) ==
    \/ lcl.validation # Unbound /\ ~lcl.validation.is_valid
    \/ lcl.llm_settings # Unbound /\ ~Truthy(lcl.llm_settings.model)
    \/ /\ lcl.llm_settings # Unbound
       /\ lcl.llm_settings.provider = "siliconflow"
       /\ ~TruthySeq(lcl.override_siliconflow_api_key)
    \/ lcl.status_snapshot # Unbound /\ lcl.status_snapshot.missing # <<>>

\* C1: run_stock_analysis is invoked for a request only after the validator
\* returned is_valid, a non-empty model was resolved, a credential of the
\* pool was selected when the provider is siliconflow, and the readiness
\* snapshot had no missing label, in this order; when a gate fails it is
\* never invoked.
C1_EngineOnlyAfterGates ==
    \A r \in Slots :
        /\ engine[r] # "none" =>
               /\ SubSeq(local[r].trace, 1, Len(GatesPassed(local[r])))
                      = GatesPassed(local[r])
               /\ local[r].validation.is_valid
               /\ local[r].llm_settings.status_code = 0
               /\ Truthy(local[r].llm_settings.model)
               /\ local[r].llm_settings.provider = "siliconflow" =>
                      local[r].override_siliconflow_api_key \in Range(Pool)
               /\ local[r].status_snapshot.missing = <<>>
        /\ GateFailed(local[r]) => engine[r] = "none" /\ pc[r] = "FAILED"

\* C1's case: the computation runs for a request of the pooled provider with
\* a credential of the pool.
C1_Witness ==
    \E r \in Slots :
        /\ engine[r] = "running"
        /\ local[r].llm_settings.provider = "siliconflow"
        /\ local[r].override_siliconflow_api_key = <<"b">>

\* The dispatch of request r returned an outcome whose success flag is false
\* and whose error is a string, and the handler has ended.
ReturnedFailure(r) ==
    /\ Ended(r)
    /\ engine[r] = "returned"
    /\ analysis_result[r].success = Key(FALSE)
    /\ analysis_result[r].error.kind = "value"

\* C2, as claimed: when the dispatch returns an outcome with success false
\* and an error string e, the response is 200 with analysis.success false,
\* analysis.error e and no markdown_report.
C2_FailureOutcomeIs200 ==
    \A r \in Slots :
        ReturnedFailure(r) =>
            /\ pc[r] = "RETURNED"
            /\ response[r].status_code = 200
            /\ response[r].analysis.success = Key(FALSE)
            /\ response[r].analysis.error = analysis_result[r].error
            /\ response[r].analysis.markdown_report = KeyNone

\* C3, as claimed: whatever run_stock_analysis raises, the request ends with
\* status 500.
C3_AnyExceptionIs500 ==
    \A r \in Slots :
        Ended(r) /\ engine[r] = "raised" =>
            pc[r] = "FAILED" /\ response[r].status_code = HTTP_500_INTERNAL_SERVER_ERROR

\* C3, amended: an exception run_stock_analysis raises that is not an
\* HTTPException ends the request with status 500; an HTTPException it raises
\* ends the request with that exception's own status and detail; no exception
\* ends it with a 200 response.
C3_ExceptionIs500UnlessHTTPException ==
    \A r \in Slots :
        Ended(r) /\ engine[r] = "raised" =>
            /\ pc[r] = "FAILED"
            /\ response[r].analysis = Unbound
            /\ IF analysis_result[r].type = "HTTPException"
               THEN /\ response[r].status_code = analysis_result[r].status_code
                    /\ response[r].detail = analysis_result[r].text
               ELSE response[r].status_code = HTTP_500_INTERNAL_SERVER_ERROR

\* C3's case: an exception that is not an HTTPException has ended a request
\* with 500.
C3_Witness ==
    \E r \in Slots :
        /\ engine[r] = "raised"
        /\ analysis_result[r].type = "Exception"
        /\ response[r].status_code = HTTP_500_INTERNAL_SERVER_ERROR

\* C4: when the validator returns is_valid false with the errors L, the
\* request is rejected with 422 and the detail L, whole and in order, and
\* neither the resolver, the credential selector nor the readiness check has
\* run for it.
C4_ValidationFailureIs422 ==
    \A r \in Slots :
        local[r].validation # Unbound /\ ~local[r].validation.is_valid =>
            /\ pc[r] = "FAILED"
            /\ response[r].status_code = HTTP_422_UNPROCESSABLE_ENTITY
            /\ response[r].detail = local[r].validation.errors
            /\ local[r].trace = <<"validate">>
            /\ local[r].llm_settings = Unbound
            /\ local[r].override_siliconflow_api_key = NoneSeq
            /\ local[r].status_snapshot = Unbound
            /\ engine[r] = "none"

\* C4's case: a request rejected with two errors.
C4_Witness ==
    \E r \in Slots :
        /\ local[r].validation # Unbound
        /\ local[r].validation.errors = <<"bad date", "bad symbol">>
        /\ response[r].status_code = HTTP_422_UNPROCESSABLE_ENTITY

\* The request whose locals are lcl has passed validation and model
\* resolution.
Resolved(lcl) ==
    /\ lcl.validation # Unbound /\ lcl.validation.is_valid
    /\ lcl.llm_settings # Unbound /\ lcl.llm_settings.status_code = 0

\* C5: a request that passed validation and model resolution gets 503 (a) when
\* its provider is siliconflow and the credential pool is empty, and (b) when
\* its readiness snapshot has a missing label, the detail then naming every
\* missing label.
C5_DependencyMissingIs503 ==
    \A r \in Slots :
        Resolved(local[r]) =>
            /\ local[r].llm_settings.provider = "siliconflow" /\ Pool = <<>> =>
                   /\ pc[r] = "FAILED"
                   /\ response[r].status_code = HTTP_503_SERVICE_UNAVAILABLE
            /\ local[r].status_snapshot # Unbound
                   /\ local[r].status_snapshot.missing # <<>> =>
                   /\ pc[r] = "FAILED"
                   /\ response[r].status_code = HTTP_503_SERVICE_UNAVAILABLE
                   /\ Range(local[r].status_snapshot.missing) \subseteq Range(response[r].detail)

\* C5's case: a 503 for a snapshot with two missing labels.
C5_Witness ==
    \E r \in Slots :
        /\ Resolved(local[r])
        /\ local[r].status_snapshot # Unbound
        /\ local[r].status_snapshot.missing = <<"FINNHUB_API_KEY", "DEEPSEEK_API_KEY">>
        /\ response[r].status_code = HTTP_503_SERVICE_UNAVAILABLE

\* C8, as claimed: the request_id exists before validation, so a request
\* that failed, at whatever step, has one.
C8_FailuresHaveRequestId ==
    \A r \in Slots :
        /\ local[r].trace # <<>> => local[r].request_id # 0
        /\ pc[r] = "FAILED" => local[r].request_id # 0

\* C9: while requests are suspended at the await of the dispatch, the event
\* loop is free: a request not yet received can be taken through every gate
\* to its own dispatch, GET /health answers {"status": "ok"}, and a request
\* whose computation has ended can be resumed whatever the others are doing;
\* a request that is neither unreceived nor ended is suspended at that await
\* and nowhere else.
C9_DispatchDoesNotBlock ==
    /\ loop = 0
    /\ ENABLED health_check
    /\ health # Unbound => health = [status |-> "ok"]
    /\ \A r \in Slots :
        /\ pc[r] = "idle" =>
               ENABLED (/\ create_analysis(r, ConcRequests, ConcValidatorResults,
                                           ConcSnapshots)
                        /\ pc'[r] = "DISPATCHED")
        /\ pc[r] = "DISPATCHED" /\ engine[r] \in {"returned", "raised"} =>
               ENABLED Resume(r)
        /\ pc[r] \notin {"idle", "RETURNED", "FAILED"} =>
               /\ pc[r] = "DISPATCHED"
               /\ local[r].trace[Len(local[r].trace)] = "dispatch"

\* C9's case: a request dispatched later has returned with 200 while one
\* dispatched earlier is still suspended, a third can still be accepted, and
\* /health has answered.
C9_Witness ==
    \E r1, r2, r3 \in Slots :
        /\ pc[r1] = "DISPATCHED" /\ engine[r1] = "running"
        /\ pc[r2] = "RETURNED"
        /\ local[r1].request_id < local[r2].request_id
        /\ pc[r3] = "idle"
        /\ health = [status |-> "ok"]

\* C11: the mask of a credential of at most 8 characters is as many
\* asterisks as it has characters; the mask of a longer one is its first 4
\* characters, "***" and its last 4 characters, 11 characters in all, so that
\* no character between the two ends is in it.
C11_MaskRevealsEndsOnly ==
    call.op = "mask" =>
        LET k == call.api_key
            n == Len(call.api_key)
            m == call.result
        IN  IF n <= 8
            THEN Len(m) = n /\ \A i \in 1..n : m[i] = "*"
            ELSE /\ m = SubSeq(k, 1, 4) \o <<"*", "*", "*">> \o SubSeq(k, n - 3, n)
                 /\ Len(m) = 11
                 /\ \A i \in 5..7 : m[i] = "*"
                 /\ k = ExampleKey =>
                        Range(m) \cap Range(SubSeq(k, 5, n - 4)) = {}

\* C11's case: a credential of 9 characters whose fifth is the only "b" is
\* masked, and the mask shows no "b".
C11_Witness ==
    /\ call.op = "mask"
    /\ call.api_key = <<"a", "a", "a", "a", "b", "a", "a", "a", "a">>
    /\ "b" \notin Range(call.result)

\* C12, as claimed: the report is rendered only when the formatted outcome's
\* success flag is true and REPORT_EXPORTER is there; when rendering raises
\* the request still ends with status 200 and no markdown_report; no
\* response whose success is false has a markdown_report.
C12_RenderFailureStill200 ==
    \A r \in Slots :
        /\ local[r].render # "skipped" =>
               /\ analysis_result[r].success = Key(TRUE)
               /\ REPORT_EXPORTER # None
        /\ Ended(r) /\ local[r].render = "raised" =>
               /\ pc[r] = "RETURNED"
               /\ response[r].status_code = 200
               /\ response[r].analysis.markdown_report = KeyNone
        /\ pc[r] = "RETURNED" /\ response[r].analysis.success # Key(TRUE) =>
               response[r].analysis.markdown_report = KeyNone

\* The fields of the response that echo the request.
EchoedFields ==
    {"stock_symbol", "analysis_date", "analysts", "research_depth", "llm_provider",
     "llm_model"}

\* What the request whose locals are lcl, and its resolved settings, have for
\* the echoed field f.
EchoOf(lcl, f) ==
    CASE f = "stock_symbol" -> Key(lcl.request.stock_symbol)
      [] f = "analysis_date" -> Key(lcl.request.analysis_date)
      [] f = "analysts" -> Key(lcl.analysts)
      [] f = "research_depth" -> Key(lcl.request.research_depth)
      [] f = "llm_provider" -> Key(lcl.llm_settings.provider)
      [] f = "llm_model" -> Key(lcl.llm_settings.model)

Contains(text, key) ==
    \E i \in 1..Len(text) :
        i + Len(key) - 1 <= Len(text) /\ SubSeq(text, i, i + Len(key) - 1) = key

\* C14, as claimed: the detail of an error response never contains the
\* credential selected for the request, whatever run_stock_analysis does.
C14_NoCredentialInErrorBody ==
    \A r \in Slots :
        pc[r] = "FAILED" /\ TruthySeq(local[r].override_siliconflow_api_key) =>
            ~Contains(response[r].detail, local[r].override_siliconflow_api_key)

\* How many times x occurs in the sequence q.
Count(q, x) == Cardinality({i \in 1..Len(q) : q[i] = x})

\* C15: for the provider siliconflow the selector is called once, and the
\* credential handed to the readiness check is the one it returned, a member
\* of the pool, and is the override handed to run_stock_analysis; for any
\* other provider the selector is not called and both are handed None.
C15_OneCredentialPerRequest ==
    \A r \in Slots :
        /\ Count(local[r].trace, "select") <= 1
        /\ local[r].ready_call # Unbound =>
               /\ local[r].ready_call.llm_provider = local[r].llm_settings.provider
               /\ IF local[r].llm_settings.provider = "siliconflow"
                  THEN /\ Count(local[r].trace, "select") = 1
                       /\ local[r].ready_call.override_siliconflow_api_key
                              = local[r].override_siliconflow_api_key
                       /\ local[r].override_siliconflow_api_key \in Range(Pool)
                  ELSE /\ Count(local[r].trace, "select") = 0
                       /\ local[r].ready_call.override_siliconflow_api_key = NoneSeq
        /\ local[r].engine_call # Unbound =>
               /\ local[r].ready_call # Unbound
               /\ local[r].engine_call.override_siliconflow_api_key
                      = local[r].ready_call.override_siliconflow_api_key
               /\ local[r].engine_call.llm_provider = local[r].ready_call.llm_provider

\* C15's case: the second credential of a pool of two was handed to the
\* readiness check and to a computation that is running.
C15_Witness ==
    \E r \in Slots :
        /\ engine[r] = "running"
        /\ Pool = <<(<<"a">>), (<<"b">>)>>
        /\ local[r].ready_call.override_siliconflow_api_key = <<"b">>
        /\ local[r].engine_call.override_siliconflow_api_key = <<"b">>

\* The steps of a request up to the await of its dispatch, in order.
PathOf(lcl) == GatesPassed(lcl) \o <<"request_id", "dispatch">>

\* q is p, or p with more at its end.
IsPrefix(p, q) == Len(p) <= Len(q) /\ SubSeq(q, 1, Len(p)) = p

\* How far the handler of a request is.
Rank(state) == CASE state = "idle" -> 0 [] state = "DISPATCHED" -> 1 [] OTHER -> 2

\* No model can be resolved for the request.
WouldFailResolution(request) ==
    ~NonEmpty(request.llm_model) /\ FirstNonEmptySource = None

\* The steps taken by request r are a beginning of validate, resolve, select
\* (for siliconflow), ready, request_id, dispatch, format, assemble, and the
\* request has failed only at the step where these stop.
InOrder(r) ==
    LET lcl == local[r]
        trace == local[r].trace
        status_code == response[r].status_code
    IN  CASE pc[r] = "idle" -> trace = <<>>
          [] pc[r] = "DISPATCHED" -> trace = PathOf(lcl)
          [] pc[r] = "RETURNED" ->
                 trace = PathOf(lcl) \o <<"format", "assemble">> /\ status_code = 200
          [] pc[r] = "FAILED" ->
                 IF Len(trace) = 1
                 THEN trace = <<"validate">> /\ status_code = 422
                 ELSE IF Len(trace) = 2
                 THEN trace = <<"validate", "resolve">> /\ status_code = 400
                 ELSE IF trace[Len(trace)] = "select"
                 THEN /\ trace = <<"validate", "resolve", "select">>
                      /\ lcl.llm_settings.provider = "siliconflow"
                      /\ status_code = 503
                 ELSE IF trace[Len(trace)] = "ready"
                 THEN trace = GatesPassed(lcl) /\ status_code = 503
                 ELSE IF trace[Len(trace)] = "except"
                 THEN trace = PathOf(lcl) \o <<"except">> /\ engine[r] = "raised"
                 ELSE /\ trace = PathOf(lcl) \o <<"format", "assemble">>
                      /\ status_code = 500

\* The status of request r is that of the first gate it fails, in the order
\* validation, model resolution, pooled credential, readiness.
EarliestFailingGate(r) ==
    LET lcl == local[r]
        failed(status_code, step) ==
            /\ pc[r] = "FAILED"
            /\ response[r].status_code = status_code
            /\ lcl.trace[Len(lcl.trace)] = step
    IN  lcl.request # Unbound =>
            IF ~lcl.validation.is_valid THEN failed(422, "validate")
            ELSE IF WouldFailResolution(lcl.request) THEN failed(400, "resolve")
            ELSE IF lcl.llm_settings.provider = "siliconflow" /\ Pool = <<>>
            THEN failed(503, "select")
            ELSE lcl.status_snapshot # Unbound /\ lcl.status_snapshot.missing # <<>> =>
                     failed(503, "ready")

\* C16: a request takes the steps validate, resolve, select (only for
\* siliconflow), ready, dispatch, format, assemble in this order, skipping
\* none and never going back, and may fail at each; a request that would fail
\* several gates fails with the status of the first of them.
C16_GatesInOrder ==
    /\ [](\A r \in Slots : InOrder(r) /\ EarliestFailingGate(r))
    /\ [][\A r \in Slots :
              /\ IsPrefix(local[r].trace, local'[r].trace)
              /\ Rank(pc[r]) <= Rank(pc'[r])
              /\ pc[r] # pc'[r] => Len(local'[r].trace) > Len(local[r].trace)]_vars

\* C16's case: a request rejected with 422 that has no resolvable model and
\* asks for siliconflow while the pool is empty.
C16_Witness ==
    \E r \in Slots :
        /\ pc[r] = "FAILED"
        /\ response[r].status_code = 422
        /\ WouldFailResolution(local[r].request)
        /\ local[r].request.llm_provider = "siliconflow"
        /\ Pool = <<>>

\* C17: no step of a request changes the environment, the default
\* configuration or the pool derived from them; whatever the other requests
\* have selected, a request not yet received can select each credential of
\* the pool, and the credentials selected are members of the pool.
C17_PoolIsReadOnly ==
    /\ [][environ' = environ /\ DEFAULT_CONFIG' = DEFAULT_CONFIG
              /\ REPORT_EXPORTER' = REPORT_EXPORTER]_vars
    /\ [](/\ Pool = <<(<<"a">>), (<<"b">>)>>
          /\ _select_random_siliconflow_api_key(environ) = Range(Pool)
          /\ \A r \in Slots :
                /\ local[r].trace # <<>> =>
                       local[r].override_siliconflow_api_key \in Range(Pool)
                /\ pc[r] = "idle" =>
                       \A k \in Range(Pool) :
                           ENABLED (/\ create_analysis(r, ConcRequests,
                                                       SharedValidatorResults,
                                                       ConcSnapshots)
                                    /\ local'[r].override_siliconflow_api_key = k))

\* C17's case: two requests have selected the same credential, the one
\* received first still suspended at its dispatch when the other has returned.
C17_Witness ==
    \E r1, r2 \in Slots :
        /\ local[r1].override_siliconflow_api_key = <<"b">> /\ pc[r1] = "DISPATCHED"
        /\ local[r2].override_siliconflow_api_key = <<"b">> /\ pc[r2] = "RETURNED"
        /\ local[r1].request_id < local[r2].request_id

\* C18, as claimed: a request whose dispatch returned an outcome ends
\* RETURNED with status 200, whichever fields the outcome has, lacks, or
\* holds None in.
C18_AnyOutcomeShapeIs200 ==
    \A r \in Slots :
        Ended(r) /\ engine[r] = "returned" =>
            /\ pc[r] = "RETURNED"
            /\ response[r].status_code = 200
            /\ response[r].analysis # Unbound

\* The status of the HTTPException run_stock_analysis raised for request r.
EngineStatus(r) ==
    IF engine[r] = "raised" /\ analysis_result[r].type = "HTTPException"
    THEN {analysis_result[r].status_code} ELSE {}

\* Request r has no response before it ends, and then one: 200 when it
\* returned, one of the error statuses when it failed.
OneOutcome(r, error_statuses) ==
    /\ ~Ended(r) => response[r].status_code = 0
    /\ pc[r] = "RETURNED" => response[r].status_code = 200 /\ engine[r] = "returned"
    /\ pc[r] = "FAILED" => response[r].status_code \in error_statuses
    /\ Count(local[r].trace, "dispatch") = (IF engine[r] = "none" THEN 0 ELSE 1)

\* How far the computation of a request is.
EngineRank(state) ==
    CASE state = "none" -> 0 [] state = "queued" -> 1 [] state = "running" -> 2
      [] OTHER -> 3

\* A step starts the computation of request r at most once, leaves a
\* computation that ended as it ended, and leaves a request that ended as it
\* ended.
NoFurtherStep(r) ==
    /\ EngineRank(engine[r]) <= EngineRank(engine'[r])
    /\ engine[r] \in {"returned", "raised"} =>
           engine'[r] = engine[r] /\ analysis_result'[r] = analysis_result[r]
    /\ Ended(r) =>
           /\ pc'[r] = pc[r]
           /\ local'[r] = local[r]
           /\ response'[r] = response[r]
           /\ engine'[r] = engine[r]

\* C19, as claimed: a request ends with one outcome, 200 or one of 422, 400,
\* 503, 500; run_stock_analysis is invoked at most once for it, with no
\* retry after an exception or a failure outcome; once ended it takes no step.
C19_OneOutcomeAmongFive ==
    /\ [](\A r \in Slots : OneOutcome(r, {422, 400, 503, 500}))
    /\ [][\A r \in Slots : NoFurtherStep(r)]_vars

\* C19, amended: a request ends with one outcome, 200 or an error whose
\* status is 422, 400, 503, 500 or the status of the HTTPException that
\* run_stock_analysis raised; run_stock_analysis is invoked at most once for
\* it, with no retry after an exception or a failure outcome; once ended it
\* takes no step.
C19_OneOutcomeOneInvocation ==
    /\ [](\A r \in Slots : OneOutcome(r, {422, 400, 503, 500} \cup EngineStatus(r)))
    /\ [][\A r \in Slots : NoFurtherStep(r)]_vars

\* C19's case: a request has ended with 200 on an outcome whose success is
\* false, the computation run once.
C19_Witness ==
    \E r \in Slots :
        /\ pc[r] = "RETURNED"
        /\ response[r].analysis.success = Key(FALSE)
        /\ Count(local[r].trace, "dispatch") = 1
        /\ engine[r] = "returned"

\* The computations that hold a thread of the pool.
Running == {r \in Slots : engine[r] = "running"}

\* C20: under fair scheduling, and with every computation returning or
\* raising in the end, every request received ends RETURNED or FAILED, also
\* when more requests are dispatched than the pool has threads; never more
\* than MaxWorkers computations run, and a request that ended holds no thread
\* and waits for none.
C20_EveryRequestEnds ==
    /\ \A r \in 1..MaxLive : (pc[r] # "idle") ~> Ended(r)
    /\ [](Cardinality(Running) <= MaxWorkers)
    /\ [](\A r \in Slots : Ended(r) => engine[r] \notin {"queued", "running"})

\* C20's case: every thread of the pool is taken and one more computation
\* waits for a thread.
C20_Witness ==
    /\ Cardinality(Running) = MaxWorkers
    /\ \E r \in Slots : engine[r] = "queued" /\ pc[r] = "DISPATCHED"

====
